---- MODULE Spec2Model ----
(***************************************************************************)
(* Model of nav_compare.py: normalize_name, extract_nav_data and           *)
(* compare_nav_files.                                                      *)
(*                                                                         *)
(* A cell of a sheet is a record [kind, str, num]: kind "nan" is a missing *)
(* value (NaN / None), "str" a text (a sequence of one-character strings), *)
(* "num" a number.                                                         *)
(***************************************************************************)
EXTENDS Integers, Sequences, FiniteSets, TLC

VARIABLES nm_pc, nm_in, nm_out, nm_out2,
          pc, latest_file, past_file, latest_ext, past_ext, merged,
          missing_in_past, missing_in_latest, output

nm_vars == <<nm_pc, nm_in, nm_out, nm_out2>>

cmp_vars == <<pc, latest_file, past_file, latest_ext, past_ext, merged,
              missing_in_past, missing_in_latest, output>>

vars == <<nm_vars, cmp_vars>>

\* Longest name handed to normalize_name.
MaxLen == 5

NaN == [kind |-> "nan", str |-> <<>>, num |-> 0]
StrCell(s) == [kind |-> "str", str |-> s, num |-> 0]
NumCell(n) == [kind |-> "num", str |-> <<>>, num |-> n]

\* pd.isna / Series.notna on a cell.
isna(c) == c.kind = "nan"

\* The characters names are built from: a lower- and an upper-case letter,
\* the space, the tab and the newline.
Chars == {"a", "A", " ", "\t", "\n"}

\* What str.strip() removes with no argument: any whitespace character.
Whitespace == {" ", "\t", "\n"}

\* str.upper(), one character at a time.
UpperChar(c) == IF c = "a" THEN "A" ELSE IF c = "b" THEN "B" ELSE c

upper(s) == [i \in 1..Len(s) |-> UpperChar(s[i])]

RECURSIVE lstrip(_)
lstrip(s) ==
    IF s # <<>> /\ Head(s) \in Whitespace THEN lstrip(Tail(s)) ELSE s

RECURSIVE rstrip(_)
rstrip(s) ==
    IF s # <<>> /\ s[Len(s)] \in Whitespace
    THEN rstrip(SubSeq(s, 1, Len(s) - 1))
    ELSE s

RECURSIVE lstrip_spaces(_)
lstrip_spaces(s) ==
    IF s # <<>> /\ Head(s) = " " THEN lstrip_spaces(Tail(s)) ELSE s

RECURSIVE rstrip_spaces(_)
rstrip_spaces(s) ==
    IF s # <<>> /\ s[Len(s)] = " "
    THEN rstrip_spaces(SubSeq(s, 1, Len(s) - 1))
    ELSE s

\* s.strip(" "): only spaces are removed at the ends.
strip_spaces_only(s) == rstrip_spaces(lstrip_spaces(s))

strip(s) == rstrip(lstrip(s))

\* "  " in s
HasDoubleSpace(s) == \E i \in 1..(Len(s) - 1) : s[i] = " " /\ s[i + 1] = " "

\* s.replace("  ", " "): one left-to-right pass over non-overlapping matches.
RECURSIVE replace(_)
replace(s) ==
    IF Len(s) < 2 THEN s
    ELSE IF s[1] = " " /\ s[2] = " "
         THEN <<" ">> \o replace(Tail(Tail(s)))
         ELSE <<Head(s)>> \o replace(Tail(s))

\* s = s.replace("  ", " ") without the loop around it.
collapse_once(s) == replace(s)

\* while "  " in s: s = s.replace("  ", " ")
RECURSIVE collapse(_)
collapse(s) == IF HasDoubleSpace(s) THEN collapse(replace(s)) ELSE s

Digits == <<"0", "1", "2", "3", "4", "5", "6", "7", "8", "9">>

\* str(n) for a number n >= 0 (decimal digits).
RECURSIVE DecimalStr(_)
DecimalStr(n) ==
    IF n < 10 THEN <<Digits[n + 1]>>
    ELSE DecimalStr(n \div 10) \o <<Digits[(n % 10) + 1]>>

\* str(x) of a cell: the text itself, "nan" for a missing value, the
\* decimal digits of a number.
ToStr(c) ==
    IF c.kind = "str" THEN c.str
    ELSE IF c.kind = "nan" THEN <<"n", "a", "n">>
    ELSE DecimalStr(c.num)

normalize_name(c) ==
    IF isna(c) THEN NaN ELSE StrCell(collapse(strip(upper(ToStr(c)))))

\* All sequences over S of length at most n.
SeqsUpTo(S, n) == UNION {[1..k -> S] : k \in 0..n}

NameInputs == {NaN} \cup {StrCell(s) : s \in SeqsUpTo(Chars, MaxLen)}

----
(***************************************************************************)
(* extract_nav_data.  A sheet, as read_excel(header=None) returns it after *)
(* the merged cells were flattened, is a sequence of rows [c1, c2].  The   *)
(* two column labels are texts of one element each.                        *)
(***************************************************************************)

NAV_NAME == <<"NAV Name">>
NET_ASSET_VALUE == <<"Net Asset Value">>

Row(a, b) == [c1 |-> a, c2 |-> b]

\* pd.read_excel(..., header=None): rows labelled 0, 1, 2, ... in sheet order.
read_excel(sheet) ==
    [i \in 1..Len(sheet) |-> [idx |-> i - 1, c1 |-> sheet[i].c1, c2 |-> sheet[i].c2]]

NotAllNa(r) == ~(isna(r.c1) /\ isna(r.c2))

\* df_raw.dropna(how="all"): the labels of the rows kept do not change.
dropna_all(df) == SelectSeq(df, NotAllNa)

\* str.contains("NAV Name", case=False, na=False) on one cell.
ContainsNavName(c) ==
    c.kind = "str" /\ \E i \in 1..Len(c.str) : c.str[i] \in {"NAV Name", "nav name", "NAV NAME"}

header_row_mask(r) == ContainsNavName(r.c1) \/ ContainsNavName(r.c2)

\* header_row_mask[header_row_mask].index.tolist(): the LABELS of the rows.
header_rows(df) ==
    LET hit == SelectSeq(df, header_row_mask)
    IN  [i \in 1..Len(hit) |-> hit[i].idx]

\* df.columns.astype(str).str.strip()
column_names(hdr) == <<strip(ToStr(hdr.c1)), strip(ToStr(hdr.c2))>>

\* df[[...]]: the cell of row r under the column named label.
Col(columns, r, label) == IF columns[1] = label THEN r.c1 ELSE r.c2

\* pd.to_numeric(..., errors="coerce") on one cell: a number stays, a text of
\* one decimal digit is parsed, any other text becomes NaN.
to_numeric(c) ==
    IF c.kind = "num" THEN c
    ELSE IF c.kind = "str" /\ Len(strip(c.str)) = 1
            /\ \E d \in 1..10 : Digits[d] = strip(c.str)[1]
         THEN NumCell((CHOOSE d \in 1..10 : Digits[d] = strip(c.str)[1]) - 1)
         ELSE NaN

ValueNotNa(r) == ~isna(r.value)
NameNotNa(r) == ~isna(r.name)
KeyNotNa(r) == ~isna(r.key)

\* The frame with no duplicate dropped.
keep_duplicates(df) == df

\* df.drop_duplicates(subset=["Key"]): the first row of every key is kept.
RECURSIVE drop_duplicates(_)
drop_duplicates(df) ==
    IF df = <<>> THEN <<>>
    ELSE LET init == SubSeq(df, 1, Len(df) - 1)
             last == df[Len(df)]
         IN  IF \E i \in 1..Len(init) : init[i].key = last.key
             THEN drop_duplicates(init)
             ELSE drop_duplicates(init) \o <<last>>

\* Lines 111-139: select the two columns, keep the rows with a numeric value
\* and a name, add the key, drop duplicate keys.
clean(columns, data) ==
    LET sel == [i \in 1..Len(data) |->
                   [name  |-> Col(columns, data[i], NAV_NAME),
                    value |-> Col(columns, data[i], NET_ASSET_VALUE)]]
        s1 == SelectSeq(sel, ValueNotNa)
        s2 == SelectSeq([i \in 1..Len(s1) |->
                            [name |-> s1[i].name, value |-> to_numeric(s1[i].value)]],
                        ValueNotNa)
        s3 == SelectSeq(s2, NameNotNa)
        s4 == SelectSeq([i \in 1..Len(s3) |->
                            [name |-> s3[i].name, value |-> s3[i].value,
                             key |-> normalize_name(s3[i].name)]],
                        KeyNotNa)
    IN  drop_duplicates(
            [i \in 1..Len(s4) |->
                [name |-> s4[i].name.str, nav |-> s4[i].value.num, key |-> s4[i].key.str]])

NoRow == [idx |-> 0 - 1, c1 |-> NaN, c2 |-> NaN]

\* The exception swallowed: an empty frame is returned instead.
ReturnedEmpty(what, hdr, data) == [status |-> "ok", header |-> hdr, data |-> data, df |-> <<>>]

\* raise ValueError(...) at lines 95 and 107, the IndexError of line 99.
Raised(what, hdr, data) == [status |-> what, header |-> hdr, data |-> data, df |-> <<>>]

\* The result of extract_nav_data on a sheet: status "ok" and the DataFrame,
\* or the exception raised.  header is the row taken as the column header
\* (line 99) and data the rows taken as data (line 100).
extract_nav_data(sheet) ==
    LET df_raw == dropna_all(read_excel(sheet))
        hdrs == header_rows(df_raw)
    IN  IF hdrs = <<>> THEN Raised("ValueError: header not found", NoRow, <<>>)
        ELSE LET header_row_idx == hdrs[1]
             IN  IF header_row_idx + 1 > Len(df_raw)
                 THEN Raised("IndexError", NoRow, <<>>)
                 ELSE LET hdr == df_raw[header_row_idx + 1]
                          columns == column_names(hdr)
                          data == SubSeq(df_raw, header_row_idx + 2, Len(df_raw))
                      IN  IF ~(\E i \in 1..2 : columns[i] = NAV_NAME)
                             \/ ~(\E i \in 1..2 : columns[i] = NET_ASSET_VALUE)
                          THEN Raised("ValueError: columns not found", hdr, data)
                          ELSE [status |-> "ok", header |-> hdr, data |-> data,
                                df |-> clean(columns, data)]

----
(***************************************************************************)
(* compare_nav_files.  A DataFrame is a sequence of rows; a row of an      *)
(* extracted snapshot is [name, nav, key], a row of the comparison table   *)
(* is [name, latest, past, change, pct].  past and change are cells (NaN   *)
(* where the left join found no past row).  pct is [kind, num]: kind "num" *)
(* with the percentage in hundredths, or "inf", "-inf", "nan".             *)
(***************************************************************************)

Pct(k, n) == [kind |-> k, num |-> n]

\* The integer nearest to n / d for d > 0, halves to the even one (round()).
RoundDiv(n, d) ==
    LET q == n \div d
        r == n % d
    IN  IF 2 * r < d THEN q
        ELSE IF 2 * r > d THEN q + 1
        ELSE IF q % 2 = 0 THEN q ELSE q + 1

\* (Change / Past NAV * 100).round(2) in float arithmetic: a division by
\* zero raises nothing and gives inf, -inf or NaN.
change_pct(change, past) ==
    IF isna(past) THEN Pct("nan", 0)
    ELSE IF past.num = 0
         THEN IF change.num > 0 THEN Pct("inf", 0)
              ELSE IF change.num < 0 THEN Pct("-inf", 0)
              ELSE Pct("nan", 0)
         ELSE IF past.num > 0
              THEN Pct("num", RoundDiv(change.num * 10000, past.num))
              ELSE Pct("num", RoundDiv((0 - change.num) * 10000, 0 - past.num))

\* A missing past value filled with 0 before the arithmetic.
merged_row_fillna(l, past) ==
    LET p == IF isna(past) THEN NumCell(0) ELSE past
        change == NumCell(l.nav - p.num)
    IN  [name |-> l.name, latest |-> l.nav, past |-> p, change |-> change,
         pct |-> change_pct(change, p)]

\* One row of the merged frame with lines 223-230 applied.
merged_row(l, past) ==
    LET change == IF isna(past) THEN NaN ELSE NumCell(l.nav - past.num)
    IN  [name |-> l.name, latest |-> l.nav, past |-> past, change |-> change,
         pct |-> change_pct(change, past)]

\* pd.merge(latest, past, on="Key", how="left"): every latest row, in order,
\* once per past row of the same key, or once with a missing past value.
RECURSIVE merge(_, _)
merge(latest, past) ==
    IF latest = <<>> THEN <<>>
    ELSE LET l == Head(latest)
             SameKey(p) == p.key = l.key
             hits == SelectSeq(past, SameKey)
         IN  (IF hits = <<>> THEN <<merged_row(l, NaN)>>
              ELSE [i \in 1..Len(hits) |-> merged_row(l, NumCell(hits[i].nav))])
             \o merge(Tail(latest), past)

\* p sorts strictly before q under sort_values("Change %", ascending=False,
\* na_position="last").
PctBefore(p, q) ==
    /\ p.kind # "nan"
    /\ \/ q.kind = "nan"
       \/ p.kind = "inf" /\ q.kind # "inf"
       \/ p.kind = "num" /\ q.kind = "-inf"
       \/ p.kind = "num" /\ q.kind = "num" /\ p.num > q.num

RECURSIVE insert_by_pct(_, _)
insert_by_pct(sorted, x) ==
    IF sorted = <<>> THEN <<x>>
    ELSE IF PctBefore(x.pct, Head(sorted).pct) THEN <<x>> \o sorted
    ELSE <<Head(sorted)>> \o insert_by_pct(Tail(sorted), x)

\* Rows of equal Change % keep their order.
RECURSIVE sort_by_pct(_)
sort_by_pct(df) ==
    IF df = <<>> THEN <<>>
    ELSE insert_by_pct(sort_by_pct(SubSeq(df, 1, Len(df) - 1)), df[Len(df)])

\* Code point order of the characters of a name.
CharOrd(c) ==
    IF c = "\t" THEN 9 ELSE IF c = "\n" THEN 10 ELSE IF c = " " THEN 32 ELSE IF c = "A" THEN 65
    ELSE IF c = "B" THEN 66 ELSE IF c = "a" THEN 97 ELSE IF c = "b" THEN 98 ELSE 120

RECURSIVE StrLess(_, _)
StrLess(s, t) ==
    IF t = <<>> THEN FALSE
    ELSE IF s = <<>> THEN TRUE
    ELSE IF CharOrd(Head(s)) # CharOrd(Head(t)) THEN CharOrd(Head(s)) < CharOrd(Head(t))
    ELSE StrLess(Tail(s), Tail(t))

RECURSIVE insert_by_name(_, _)
insert_by_name(sorted, x) ==
    IF sorted = <<>> THEN <<x>>
    ELSE IF StrLess(x.name, Head(sorted).name) THEN <<x>> \o sorted
    ELSE <<Head(sorted)>> \o insert_by_name(Tail(sorted), x)

\* sort_values("Mutual Fund Name")
RECURSIVE sort_by_name(_)
sort_by_name(df) ==
    IF df = <<>> THEN <<>>
    ELSE insert_by_name(sort_by_name(SubSeq(df, 1, Len(df) - 1)), df[Len(df)])

Keys(df) == {df[i].key : i \in 1..Len(df)}

\* The same selection with the mask of the first frame's first row applied to
\* every row (a scalar mask instead of a row-wise one).
missing_in_scalar_mask(a, b) ==
    LET rows == IF a # <<>> /\ a[1].key \notin Keys(b) THEN a ELSE <<>>
    IN  sort_by_name([i \in 1..Len(rows) |-> [name |-> rows[i].name, nav |-> rows[i].nav]])

\* a[~a["Key"].isin(b["Key"])][["Mutual Fund Name", <NAV>]].sort_values(...)
missing_in(a, b) ==
    LET NotInB(r) == r.key \notin Keys(b)
        rows == SelectSeq(a, NotInB)
    IN  sort_by_name([i \in 1..Len(rows) |-> [name |-> rows[i].name, nav |-> rows[i].nav]])

\* Lines 172-190: the fill of the Change % cell of one data row.  float() of
\* the text "inf" is positive; an empty cell (NaN) raises TypeError and is
\* left as it is.
fill_of(r) ==
    IF r.pct.kind = "inf" \/ (r.pct.kind = "num" /\ r.pct.num > 0) THEN "green"
    ELSE IF r.pct.kind = "-inf" \/ (r.pct.kind = "num" /\ r.pct.num < 0) THEN "red"
    ELSE "none"

----
(***************************************************************************)
(* The sheets the two input files may hold: some completely empty rows,    *)
(* a header row (or none), then data rows.                                 *)
(***************************************************************************)

\* Most data rows in one input sheet.
MaxRows == 2

\* Most completely empty rows at the top of an input sheet.
MaxBlank == 1

DataRows ==
    { Row(NaN, NumCell(1)),                      \* no name
      Row(StrCell(<<" ">>), NumCell(1)),         \* a name of whitespace only
      Row(StrCell(<<"a">>), StrCell(<<"x">>)),   \* a value that is no number
      Row(StrCell(<<"a">>), NumCell(1)),
      Row(StrCell(<<"A">>), NumCell(2)),         \* the key of the row above
      Row(StrCell(<<"b">>), NumCell(0)),         \* a NAV of zero
      Row(StrCell(<<"b">>), NumCell(1)) }

\* The header row of a sheet: the two required labels; 'NAV Name' in another
\* case; 'NAV Name' without 'Net Asset Value'; no header row.
HeaderKinds == {"ok", "case", "novalue", "none"}

HeaderRow(h) ==
    IF h = "ok" THEN <<Row(StrCell(NAV_NAME), StrCell(NET_ASSET_VALUE))>>
    ELSE IF h = "case" THEN <<Row(StrCell(<<"nav name">>), StrCell(NET_ASSET_VALUE))>>
    ELSE IF h = "novalue" THEN <<Row(StrCell(NAV_NAME), StrCell(<<"Date">>))>>
    ELSE <<>>

Sheet(blank, h, rows) == [i \in 1..blank |-> Row(NaN, NaN)] \o HeaderRow(h) \o rows

\* Sheets with a proper header under 0..MaxBlank empty rows, and sheets with
\* a header row that is wrong or absent.
Sheets ==
    { Sheet(b, "ok", rows) : b \in 0..MaxBlank, rows \in SeqsUpTo(DataRows, MaxRows) }
    \cup
    { Sheet(0, h, rows) : h \in HeaderKinds, rows \in SeqsUpTo(DataRows, MaxRows) }

NoExtract == [status |-> "none", header |-> NoRow, data |-> <<>>, df |-> <<>>]

NoOutput ==
    [written |-> FALSE, formatted |-> FALSE, sheets |-> {}, comparison |-> <<>>,
     missing_in_past |-> <<>>, missing_in_latest |-> <<>>, fills |-> <<>>]

CompareInit ==
    /\ pc = "start"
    /\ latest_file = <<>>
    /\ past_file = <<>>
    /\ latest_ext = NoExtract
    /\ past_ext = NoExtract
    /\ merged = <<>>
    /\ missing_in_past = <<>>
    /\ missing_in_latest = <<>>
    /\ output = NoOutput

\* Line 207: latest_df = extract_nav_data(latest_file); an exception ends
\* compare_nav_files.
ExtractLatest ==
    /\ pc = "start"
    /\ \E sheet \in Sheets :
          /\ latest_file' = sheet
          /\ latest_ext' = extract_nav_data(sheet)
    /\ pc' = IF latest_ext'.status = "ok" THEN "latest_done" ELSE "raised"
    /\ UNCHANGED <<past_file, past_ext, merged, missing_in_past, missing_in_latest, output>>
    /\ UNCHANGED nm_vars

\* Line 208: past_df = extract_nav_data(past_file)
ExtractPast ==
    /\ pc = "latest_done"
    /\ \E sheet \in Sheets :
          /\ past_file' = sheet
          /\ past_ext' = extract_nav_data(sheet)
    /\ pc' = IF past_ext'.status = "ok" THEN "past_done" ELSE "raised"
    /\ UNCHANGED <<latest_file, latest_ext, merged, missing_in_past, missing_in_latest, output>>
    /\ UNCHANGED nm_vars

\* Lines 210-246: the comparison table and the two outlier lists.
Compare ==
    /\ pc = "past_done"
    /\ merged' = sort_by_pct(merge(latest_ext.df, past_ext.df))
    /\ missing_in_past' = missing_in(latest_ext.df, past_ext.df)
    /\ missing_in_latest' = missing_in(past_ext.df, latest_ext.df)
    /\ pc' = "computed"
    /\ UNCHANGED <<latest_file, past_file, latest_ext, past_ext, output>>
    /\ UNCHANGED nm_vars

\* Lines 249-258: the workbook is written; an outlier sheet only if it has rows.
WriteOutput ==
    /\ pc = "computed"
    /\ output' = [written |-> TRUE, formatted |-> FALSE,
                  sheets |-> {"NAV Comparison"}
                             \cup (IF missing_in_past # <<>> THEN {"Missing_in_Past"} ELSE {})
                             \cup (IF missing_in_latest # <<>> THEN {"Missing_in_Latest"} ELSE {}),
                  comparison |-> merged,
                  missing_in_past |-> missing_in_past,
                  missing_in_latest |-> missing_in_latest,
                  fills |-> <<>>]
    /\ pc' = "written"
    /\ UNCHANGED <<latest_file, past_file, latest_ext, past_ext, merged, missing_in_past,
                   missing_in_latest>>
    /\ UNCHANGED nm_vars

\* Lines 261-263: format_excel_output styles the main sheet; compare_nav_files
\* returns merged.
FormatOutput ==
    /\ pc = "written"
    /\ output' = [output EXCEPT
                     !.formatted = TRUE,
                     !.fills = [i \in 1..Len(output.comparison) |->
                                   fill_of(output.comparison[i])]]
    /\ pc' = "returned"
    /\ UNCHANGED <<latest_file, past_file, latest_ext, past_ext, merged, missing_in_past,
                   missing_in_latest>>
    /\ UNCHANGED nm_vars

CompareIdle ==
    /\ pc = "idle"
    /\ latest_file = <<>>
    /\ past_file = <<>>
    /\ latest_ext = NoExtract
    /\ past_ext = NoExtract
    /\ merged = <<>>
    /\ missing_in_past = <<>>
    /\ missing_in_latest = <<>>
    /\ output = NoOutput

NormIdle ==
    /\ nm_pc = "idle"
    /\ nm_in = NaN
    /\ nm_out = NaN
    /\ nm_out2 = NaN

Init == CompareInit /\ NormIdle

Next == ExtractLatest \/ ExtractPast \/ Compare \/ WriteOutput \/ FormatOutput

Spec == Init /\ [][Next]_vars

----
\* normalize_name applied to an input, and again to its own result.

NormStart ==
    /\ nm_pc = "start"
    /\ nm_in \in NameInputs
    /\ nm_out = NaN
    /\ nm_out2 = NaN

NormInit == NormStart /\ CompareIdle

NormalizeOnce ==
    /\ nm_pc = "start"
    /\ nm_out' = normalize_name(nm_in)
    /\ nm_pc' = "once"
    /\ UNCHANGED <<nm_in, nm_out2>>
    /\ UNCHANGED cmp_vars

NormalizeAgain ==
    /\ nm_pc = "once"
    /\ nm_out2' = normalize_name(nm_out)
    /\ nm_pc' = "twice"
    /\ UNCHANGED <<nm_in, nm_out>>
    /\ UNCHANGED cmp_vars

NormNext == NormalizeOnce \/ NormalizeAgain

SpecNorm == NormInit /\ [][NormNext]_vars

----
(***************************************************************************)
(* Properties of normalize_name (checked under SpecNorm).                  *)
(***************************************************************************)

\* C8: normalize_name is idempotent: applying it to its own result, for a
\* text or a missing value, gives that result again.
NormalizeIdempotent == nm_pc = "twice" => nm_out2 = nm_out

\* A name with a run of spaces that normalisation changed, normalised twice.
NormalizeIdempotentWitness ==
    /\ nm_pc = "twice"
    /\ nm_in.kind = "str"
    /\ HasDoubleSpace(nm_in.str)
    /\ nm_out # nm_in
    /\ \E i \in 1..Len(nm_out.str) : nm_out.str[i] = " "

\* The sequence s restricted to the positions that satisfy Keep, in order.
Restrict(s, Keep(_)) ==
    LET idx == SelectSeq([i \in 1..Len(s) |-> i], Keep)
    IN  [k \in 1..Len(idx) |-> s[idx[k]]]

\* s between its first and its last character that is no whitespace.
Trimmed(s) ==
    LET solid == {i \in 1..Len(s) : s[i] \notin Whitespace}
    IN  IF solid = {} THEN <<>>
        ELSE SubSeq(s, CHOOSE i \in solid : \A j \in solid : i <= j,
                       CHOOSE i \in solid : \A j \in solid : j <= i)

\* Every run of whitespace characters of s replaced by one space.
WhitespaceRunsToSpace(s) ==
    LET First(i) == ~(s[i] \in Whitespace /\ i > 1 /\ s[i - 1] \in Whitespace)
        kept == Restrict(s, First)
    IN  [i \in 1..Len(kept) |-> IF kept[i] \in Whitespace THEN " " ELSE kept[i]]

\* Every run of space characters of s replaced by one space; other
\* whitespace stays.
SpaceRunsToSpace(s) ==
    LET First(i) == ~(s[i] = " " /\ i > 1 /\ s[i - 1] = " ")
    IN  Restrict(s, First)

\* C9 as stated: the key of a name is the name uppercased, every run of
\* whitespace (spaces, tabs, in any mix) collapsed to one space, trimmed.
NormalizeCollapsesWhitespace ==
    (nm_pc # "start" /\ nm_in.kind = "str")
        => nm_out = StrCell(WhitespaceRunsToSpace(Trimmed(upper(nm_in.str))))

\* C9 as amended: the key of a name is the name uppercased, leading and
\* trailing whitespace removed and every run of SPACE characters collapsed to
\* one space; a tab inside the name is kept as it is.
NormalizeCollapsesSpaces ==
    (nm_pc # "start" /\ nm_in.kind = "str")
        => nm_out = StrCell(SpaceRunsToSpace(Trimmed(upper(nm_in.str))))

\* A lower-case name with a run of spaces and a tab inside, normalised.
NormalizeCollapsesSpacesWitness ==
    /\ nm_pc = "once"
    /\ nm_in.kind = "str"
    /\ HasDoubleSpace(nm_in.str)
    /\ \E i \in 1..Len(nm_in.str) : nm_in.str[i] = "a"
    /\ \E i \in 1..Len(nm_out.str) : nm_out.str[i] = "\t"
    /\ Len(nm_out.str) < Len(nm_in.str)

----
(***************************************************************************)
(* Properties of compare_nav_files (checked under Spec).                   *)
(***************************************************************************)

\* The key of a name as extract_nav_data computes it.
KeyOf(name) == normalize_name(StrCell(name)).str

\* The keys of the rows of a written table.
TableKeys(table) == {KeyOf(table[i].name) : i \in 1..Len(table)}

\* C5: the comparison table holds at most one row per key, also when several
\* rows of an input normalise to the same key.
OneRowPerKey ==
    /\ \A i, j \in 1..Len(merged) :
          i # j => KeyOf(merged[i].name) # KeyOf(merged[j].name)
    /\ \A i, j \in 1..Len(output.comparison) :
          i # j => KeyOf(output.comparison[i].name) # KeyOf(output.comparison[j].name)

\* Rows of one snapshot's data slice that get the same key and a value.
HasDuplicateKey(ext) ==
    \E i, j \in 1..Len(ext.data) :
        /\ i < j
        /\ ext.data[i].c1.kind = "str" /\ ext.data[j].c1.kind = "str"
        /\ ext.data[i].c2.kind = "num" /\ ext.data[j].c2.kind = "num"
        /\ KeyOf(ext.data[i].c1.str) = KeyOf(ext.data[j].c1.str)

\* Both inputs hold two rows of one key, and the table written has its row.
OneRowPerKeyWitness ==
    /\ output.written
    /\ HasDuplicateKey(latest_ext)
    /\ HasDuplicateKey(past_ext)
    /\ Keys(latest_ext.df) = Keys(past_ext.df)
    /\ Len(output.comparison) = 1

Reported(r, sheet, rows) ==
    /\ sheet \in output.sheets
    /\ \E i \in 1..Len(rows) : rows[i].name = r.name /\ rows[i].nav = r.nav

\* C4: every record whose key is in exactly one extracted snapshot is written
\* to the outlier sheet of the side it is missing in, and nothing else is.
UnmatchedRecordsReported ==
    output.written =>
        /\ \A i \in 1..Len(latest_ext.df) :
              (latest_ext.df[i].key \notin Keys(past_ext.df))
                  <=> Reported(latest_ext.df[i], "Missing_in_Past", output.missing_in_past)
        /\ \A i \in 1..Len(past_ext.df) :
              (past_ext.df[i].key \notin Keys(latest_ext.df))
                  <=> Reported(past_ext.df[i], "Missing_in_Latest", output.missing_in_latest)
        /\ Len(output.missing_in_past) <= Len(latest_ext.df)
        /\ Len(output.missing_in_latest) <= Len(past_ext.df)

\* A workbook with both outlier sheets and a matched key.
UnmatchedRecordsReportedWitness ==
    /\ output.written
    /\ {"Missing_in_Past", "Missing_in_Latest"} \subseteq output.sheets
    /\ Len(latest_ext.df) > Len(output.missing_in_past)

\* A sheet extract_nav_data must reject: no row holds the header marker, or
\* the first row that does lacks one of the two required column names.
Malformed(sheet) ==
    LET hits == {i \in 1..Len(sheet) : header_row_mask(sheet[i])}
    IN  \/ hits = {}
        \/ LET h == sheet[CHOOSE i \in hits : \A j \in hits : i <= j]
           IN  {h.c1, h.c2} # {StrCell(NAV_NAME), StrCell(NET_ASSET_VALUE)}

\* No row of the sheet holds the header marker.
NoMarker(sheet) == \A i \in 1..Len(sheet) : ~header_row_mask(sheet[i])

\* The exceptions extract_nav_data ends with.
Errors == {"ValueError: header not found", "ValueError: columns not found", "IndexError"}

\* C6: a sheet without header marker or without the required columns makes
\* its extraction raise, which ends compare_nav_files with nothing written;
\* the workbook is written only after both extractions succeeded.
WriteOnlyAfterBothExtracted ==
    /\ output.written => (latest_ext.status = "ok" /\ past_ext.status = "ok")
    /\ (latest_ext.status # "none" /\ Malformed(latest_file))
          => (latest_ext.status \in Errors /\ pc = "raised" /\ past_ext.status = "none")
    /\ (latest_ext.status # "none" /\ NoMarker(latest_file))
          => latest_ext.status = "ValueError: header not found"
    /\ (past_ext.status # "none" /\ Malformed(past_file))
          => (past_ext.status \in Errors /\ pc = "raised")
    /\ (past_ext.status # "none" /\ NoMarker(past_file))
          => past_ext.status = "ValueError: header not found"
    /\ pc = "raised" => ~output.written

\* The latest sheet was extracted, the past sheet has no usable header.
WriteOnlyAfterBothExtractedWitness ==
    /\ pc = "raised"
    /\ latest_ext.status = "ok"
    /\ latest_ext.df # <<>>
    /\ Malformed(past_file)
    /\ past_ext.status = "ValueError: columns not found"
    /\ ~output.written

\* C2: a matched pair with a latest or past NAV of 0 has no row in the
\* comparison table, and no change % written is infinite or undefined (the
\* result of a division by zero).
ZeroNavNeverCompared ==
    output.written =>
        \A i \in 1..Len(output.comparison) :
            ~isna(output.comparison[i].past)
                => /\ output.comparison[i].latest # 0
                   /\ output.comparison[i].past.num # 0
                   /\ output.comparison[i].pct.kind = "num"

\* A data row of a sheet whose name is blank: missing, empty or whitespace only.
BlankName(c) == isna(c) \/ (c.kind = "str" /\ \A i \in 1..Len(c.str) : c.str[i] \in Whitespace)

\* A row of a sheet, below the header, that the extraction is to drop.
BadRow(r) == ~header_row_mask(r) /\ (BlankName(r.c1) \/ isna(to_numeric(r.c2)))

GoodRow(r) == ~BadRow(r)

\* C7: a row with a non-numeric value or a blank name takes no part in any
\* later step: the extracted snapshot is the one the sheet without these rows
\* gives, and no key of it comes from a blank name.
BadRowsTakeNoPart ==
    /\ latest_ext.status = "ok" =>
          /\ latest_ext.df = extract_nav_data(SelectSeq(latest_file, GoodRow)).df
          /\ \A i \in 1..Len(latest_ext.df) : ~BlankName(StrCell(latest_ext.df[i].name))
    /\ past_ext.status = "ok" =>
          /\ past_ext.df = extract_nav_data(SelectSeq(past_file, GoodRow)).df
          /\ \A i \in 1..Len(past_ext.df) : ~BlankName(StrCell(past_ext.df[i].name))
    /\ output.written =>
          /\ \A i \in 1..Len(output.comparison) :
                ~BlankName(StrCell(output.comparison[i].name))
          /\ \A i \in 1..Len(output.missing_in_past) :
                ~BlankName(StrCell(output.missing_in_past[i].name))
          /\ \A i \in 1..Len(output.missing_in_latest) :
                ~BlankName(StrCell(output.missing_in_latest[i].name))

\* The non-empty rows of a sheet below row number first, with their labels.
NonEmptyRowsBelow(sheet, first) ==
    LET Below(r) == r.idx > first - 1 /\ NotAllNa(r)
    IN  SelectSeq(read_excel(sheet), Below)

\* C10: when a row of the sheet holds 'NAV Name', the row taken as the column
\* header is the first such row and the data rows are the non-empty rows
\* below it, however many empty rows are above it.
HeaderIsFirstMarkerRow(sheet, ext) ==
    LET hits == {i \in 1..Len(sheet) : header_row_mask(sheet[i])}
        first == CHOOSE i \in hits : \A j \in hits : i <= j
    IN  (ext.status # "none" /\ hits # {}) =>
            /\ ext.status # "IndexError"
            /\ ext.header = [idx |-> first - 1, c1 |-> sheet[first].c1, c2 |-> sheet[first].c2]
            /\ ext.data = NonEmptyRowsBelow(sheet, first)

HeaderRowIsMarkerRow ==
    /\ HeaderIsFirstMarkerRow(latest_file, latest_ext)
    /\ HeaderIsFirstMarkerRow(past_file, past_ext)

\* TotalRaw of a snapshot: the rows of its data slice with a numeric value
\* and a name (a name that line 128 keeps).
TotalRaw(ext) ==
    Cardinality({i \in 1..Len(ext.data) :
                    ~isna(to_numeric(ext.data[i].c2)) /\ ~isna(ext.data[i].c1)})

\* The rows of the past snapshot that are part of a comparison row.
PastIncluded == Cardinality({i \in 1..Len(output.comparison) : ~isna(output.comparison[i].past)})

\* C1: per snapshot, TotalRaw is the sum of the category counts and no record
\* is in two categories.  The workbook has comparison rows (Included) and the
\* two outlier sheets (ExcludedNotComparable); nothing in it is excluded by
\* rule, as a variant or for a zero NAV, so these three counts are 0.
LedgerCloses ==
    pc = "returned" =>
        /\ TotalRaw(latest_ext) = Len(output.comparison) + Len(output.missing_in_past)
        /\ TotalRaw(past_ext) = PastIncluded + Len(output.missing_in_latest)
        /\ \A i \in 1..Len(output.comparison) :
              \A j \in 1..Len(output.missing_in_past) :
                 output.comparison[i].name # output.missing_in_past[j].name

====
